---- MODULE Spec2Model ----
(***************************************************************************)
(* Policy iteration for the two-location rental problem                    *)
(* (src/src/exercise4_7.rs).                                               *)
(*                                                                         *)
(* f64 quantities are fixed-point integers in units of 1/Scale; a product  *)
(* with the discount is rounded to the nearest unit, as a float product is *)
(* rounded to the nearest representable value.  The state collection is a  *)
(* sequence in push order (n outer, m inner), the action collection a      *)
(* function over -L..L.                                                    *)
(***************************************************************************)
EXTENDS Integers, Sequences, FiniteSets, TLC

\* ----------------------------------------------------------------- bounds
MaxRange == 2
MaxMove == 2
MaxIter == 2

\* fixed-point unit of the f64 fields (reward, state_v, rent, prob = 1.0)
Scale == 1000

VARIABLES
    gi,             \* GraphInfo
    c,              \* Option<&GraphChange>
    info,           \* AgentInfo
    state,          \* Graph.state, in push order
    action,         \* Graph.action, keyed by signed move
    policy,         \* Policy.state_action, in state order
    pc,             \* position in run
    i,              \* evaluate_policy: sweep counter
    delta,          \* evaluate_policy: largest change of the sweep
    cursor,         \* position of the for loop over g.state
    policy_stable,  \* improve_policy: accumulator
    p_old,          \* history: policy at the start of the improvement pass
    v_sweep         \* history: value estimates at the start of the sweep

vars == <<gi, c, info, state, action, policy, pc, i, delta, cursor,
          policy_stable, p_old, v_sweep>>

\* ------------------------------------------------------------- arithmetic
Abs(x) == IF x < 0 THEN -x ELSE x

Min(a, b) == IF a < b THEN a ELSE b

Max(a, b) == IF a > b THEN a ELSE b

\* f64::round of x/d (d > 0): nearest integer, halves away from zero
Round(x, d) == IF x >= 0 THEN (2 * x + d) \div (2 * d)
               ELSE -((2 * (-x) + d) \div (2 * d))

\* ------------------------------------------------------------ Poisson
RECURSIVE Pow(_, _)
Pow(b, n) == IF n = 0 THEN 1 ELSE b * Pow(b, n - 1)

RECURSIVE Fact(_)
Fact(n) == IF n = 0 THEN 1 ELSE n * Fact(n - 1)

\* exp(-rate) in units of 1/Scale
ExpNeg(rate) == CASE rate = 1 -> 368
                  [] rate = 2 -> 135
                  [] rate = 3 -> 50
                  [] rate = 4 -> 18

Pmf(rate, n) == (ExpNeg(rate) * Pow(rate, n)) \div Fact(n)

RECURSIVE Cdf(_, _)
Cdf(rate, n) == IF n < 0 THEN 0 ELSE Pmf(rate, n) + Cdf(rate, n - 1)

RECURSIVE SumPmfN(_, _)
SumPmfN(rate, n) == IF n < 0 THEN 0 ELSE Pmf(rate, n) * n + SumPmfN(rate, n - 1)

\* Graph::expected_count: E[min(X, v)], in units of 1/Scale
expected_count(v, rate) == SumPmfN(rate, v) + (Scale - Cdf(rate, v)) * v

\* ------------------------------------------------------------ containers
Side(R) == R + 1

NumStates(R) == Side(R) * Side(R)

\* count pair of the state pushed at position p (n outer, m inner)
CountAt(p, R) == <<(p - 1) % Side(R), (p - 1) \div Side(R)>>

\* NdVec2 index of a count pair
Idx2(cnt, R) == cnt[2] * Side(R) + cnt[1] + 1

\* --------------------------------------------------------------- Graph
\* State::new, with the descriptor's count and rent
StateNew(cnt, rent, reward) ==
    [count |-> cnt, rent |-> rent, reward |-> reward,
     action |-> <<>>, transition |-> <<>>, state_v |-> 0]

\* parking costs of a state with counts (m, n)
ParkingCost(m, n, ch) ==
    IF ch.some
    THEN (IF m > ch.parking_limit THEN -ch.parking_cost ELSE 0)
         + (IF n > ch.parking_limit THEN -ch.parking_cost ELSE 0)
    ELSE 0

\* the state pushed for the count pair (m, n)
SetupState(m, n, g, ch) ==
    LET rent0 == expected_count(m, g.dist_rent_0)
        rent1 == expected_count(n, g.dist_rent_1)
    IN  StateNew(<<m, n>>, <<rent0, rent1>>,
                 (rent0 + rent1) * g.rent_reward + ParkingCost(m, n, ch) * Scale)

\* variant: the credit granted to every move
FreeCreditAnyMove(k, ch) == IF ch.some THEN ch.free_shuttle ELSE 0

\* the credit subtracted from |k|
FreeCredit(k, ch) == IF ch.some THEN (IF k > 0 THEN ch.free_shuttle ELSE 0) ELSE 0

\* reward of the action pushed for the signed move k
ActionReward(k, ch) == (Abs(k) - FreeCredit(k, ch)) * (-2) * Scale

\* variant: the upper clamp alone
ClampNoFloor(sr, x) == Min(sr, x)

\* max(min(sr, x), 0)
Clamp(sr, x) == Max(Min(sr, x), 0)

\* State::expected_count
StateExpectedCount(s) == <<s.count[1] * Scale - s.rent[1], s.count[2] * Scale - s.rent[2]>>

\* the transition add_transition_for_move pushes for move k
TransitionForMove(s, k, g) ==
    LET cc == StateExpectedCount(s)
        sr == g.state_range
        kf == k * Scale
        return0 == expected_count(sr, g.dist_return_0)
        return1 == expected_count(sr, g.dist_return_1)
    IN  [action |-> k, from |-> s.count,
         to |-> <<Clamp(sr, Round(cc[1] - kf + return0, Scale)),
                  Clamp(sr, Round(cc[2] + kf + return1, Scale))>>,
         prob |-> 1]

\* variant: the move-in loop pushes k instead of -k
MoveAtNoNegation(j, m) == IF j = 1 THEN 0 ELSE IF j <= m + 1 THEN j - 1 ELSE j - m - 1

\* the move of the j-th transition pushed: 0, then 1..m, then -1..-m
MoveAt(j, m) == IF j = 1 THEN 0 ELSE IF j <= m + 1 THEN j - 1 ELSE -(j - m - 1)

\* Graph::parse_action: transition positions (from 0) grouped by action
parse_action(transition) ==
    [k \in {transition[j].action : j \in DOMAIN transition} |->
        SelectSeq([j \in DOMAIN transition |-> j - 1],
                  LAMBDA t : transition[t + 1].action = k)]

\* the transitions the third loop of setup pushes for s: the self
\* transition, the moves out, the moves in
AddTransitions(s, g) ==
    [j \in 1..(2 * g.move_limit + 1) |-> TransitionForMove(s, MoveAt(j, g.move_limit), g)]

\* Policy::new
PolicyNew(g) == [p \in 1..NumStates(g.state_range) |-> 0]

\* -------------------------------------------------------------- engine
\* discount * v, rounded to the nearest unit
Discounted(v) == Round(info.discount[1] * v, info.discount[2])

\* variant: a sweep reads successor values from the snapshot taken at its start
SuccessorValueSnapshot(t) ==
    IF pc = "visit" THEN v_sweep[Idx2(t.to, gi.state_range)]
    ELSE state[Idx2(t.to, gi.state_range)].state_v

\* g.state[self.to].state_v, read through the shared alias of the graph
SuccessorValue(t) == state[Idx2(t.to, gi.state_range)].state_v

\* Transition::reward
TransitionReward(t) ==
    state[Idx2(t.from, gi.state_range)].reward + action[t.action].reward
        + Discounted(SuccessorValue(t))

\* sum over the transitions listed in t_index of prob * reward
RECURSIVE SumTransitions(_, _)
SumTransitions(s, t_index) ==
    IF t_index = <<>> THEN 0
    ELSE LET t == s.transition[Head(t_index) + 1]
         IN  t.prob * TransitionReward(t) + SumTransitions(s, Tail(t_index))

\* the one-step lookahead of action a at state s
Lookahead(s, a) == SumTransitions(s, s.action[a])

\* variant: the earlier element kept on a tie
KeepsEarlierOnTie(x, y) == x >= y

\* variant: the comparison reversed
KeepsEarlierWhenLess(x, y) == x < y

\* the comparison max_by keeps the earlier element on: total_cmp is Greater
KeepsEarlier(x, y) == x > y

\* Iterator::max_by over the entries of s.action in ascending key order: the
\* fold keeps the earlier of two entries only where the comparison says so, so
\* the entry it returns beats every later entry and yields to no earlier one
MaxBy(s) ==
    CHOOSE a \in DOMAIN s.action :
        /\ \A b \in DOMAIN s.action :
              b > a => KeepsEarlier(Lookahead(s, a), Lookahead(s, b))
        /\ \A b \in DOMAIN s.action :
              b < a => ~KeepsEarlier(Lookahead(s, b), Lookahead(s, a))

\* the a_new improve_policy selects for s
SelectAction(s) == MaxBy(s)

\* variant: the new value written to the reward field as well
StoreValueAndReward(s, v_new) == [s EXCEPT !.state_v = v_new, !.reward = v_new]

\* s.state_v = v_new
StoreValue(s, v_new) == [s EXCEPT !.state_v = v_new]

\* variant: the accumulator overwritten by the last state's result
StableAfterLast(stable, a_old, a_new) == a_old = a_new

\* variant: the comparison of a_old with a_new inverted
StableAfterInverted(stable, a_old, a_new) == stable /\ (a_old # a_new)

\* policy_stable = policy_stable && state_stable
StableAfter(stable, a_old, a_new) == stable /\ (a_old = a_new)

\* variant: the sweep limit tested with > instead of >=
SweepBreaksLate(d, n) == d <= info.theta \/ n > info.max_iter

\* the loop exit test of evaluate_policy, after i += 1
SweepBreaks(d, n) == d <= info.theta \/ n >= info.max_iter

\* ------------------------------------------------------- configurations
RentRates == {<<3, 4>>, <<1, 2>>}

ReturnRates == {<<3, 2>>, <<1, 1>>}

RentRewards == {10}

NoChange == [some |-> FALSE, free_shuttle |-> 0, parking_limit |-> 0, parking_cost |-> 0]

Changes == {NoChange,
            [some |-> TRUE, free_shuttle |-> 1, parking_limit |-> 1, parking_cost |-> 4],
            [some |-> TRUE, free_shuttle |-> 0, parking_limit |-> 0, parking_cost |-> 4]}

Discounts == {<<9, 10>>, <<1, 2>>}

Thetas == {Scale \div 10, 50 * Scale}

GraphInfos ==
    {[dist_rent_0 |-> rr[1], dist_rent_1 |-> rr[2],
      dist_return_0 |-> rt[1], dist_return_1 |-> rt[2],
      move_limit |-> l, state_range |-> r, rent_reward |-> w] :
        rr \in RentRates, rt \in ReturnRates, l \in 0..MaxMove,
        r \in 0..MaxRange, w \in RentRewards}

AgentInfos ==
    {[discount |-> d, theta |-> th, max_iter |-> mi] :
        d \in Discounts, th \in Thetas, mi \in 1..MaxIter}

\* ------------------------------------------------------------- actions
\* Graph::new and the configuration of run
Init ==
    /\ gi \in GraphInfos
    /\ c \in Changes
    /\ info \in AgentInfos
    /\ state = <<>>
    /\ action = <<>>
    /\ policy = <<>>
    /\ pc = "setup"
    /\ i = 0
    /\ delta = 0
    /\ cursor = 0
    /\ policy_stable = TRUE
    /\ p_old = <<>>
    /\ v_sweep = <<>>

\* Graph::setup, first loop: one state per count pair
SetupStates ==
    /\ pc = "setup"
    /\ state' = [p \in 1..NumStates(gi.state_range) |->
                    SetupState(CountAt(p, gi.state_range)[1],
                               CountAt(p, gi.state_range)[2], gi, c)]
    /\ pc' = "setup_actions"
    /\ UNCHANGED <<gi, c, info, action, policy, i, delta, cursor, policy_stable,
                   p_old, v_sweep>>

\* Graph::setup, second loop: one action per signed move
SetupActions ==
    /\ pc = "setup_actions"
    /\ action' = [k \in (-gi.move_limit)..gi.move_limit |-> [reward |-> ActionReward(k, c)]]
    /\ cursor' = 1
    /\ pc' = "setup_transitions"
    /\ UNCHANGED <<gi, c, info, state, policy, i, delta, policy_stable, p_old, v_sweep>>

\* Graph::setup, third loop: the transitions of one state
SetupAddTransitions ==
    /\ pc = "setup_transitions"
    /\ cursor <= Len(state)
    /\ state' = [state EXCEPT ![cursor].transition = AddTransitions(state[cursor], gi)]
    /\ pc' = "setup_parse"
    /\ UNCHANGED <<gi, c, info, action, policy, i, delta, cursor, policy_stable,
                   p_old, v_sweep>>

\* Graph::setup, third loop: Graph::parse_action(s)
SetupParseAction ==
    /\ pc = "setup_parse"
    /\ state' = [state EXCEPT ![cursor].action = parse_action(state[cursor].transition)]
    /\ cursor' = cursor + 1
    /\ pc' = "setup_transitions"
    /\ UNCHANGED <<gi, c, info, action, policy, i, delta, policy_stable, p_old, v_sweep>>

\* Graph::setup returns
SetupReturn ==
    /\ pc = "setup_transitions"
    /\ cursor > Len(state)
    /\ pc' = "policy_new"
    /\ UNCHANGED <<gi, c, info, state, action, policy, i, delta, cursor, policy_stable,
                   p_old, v_sweep>>

\* let mut p = Policy::new(&g_info)
NewPolicy ==
    /\ pc = "policy_new"
    /\ policy' = PolicyNew(gi)
    /\ pc' = "evaluate"
    /\ UNCHANGED <<gi, c, info, state, action, i, delta, cursor, policy_stable, p_old, v_sweep>>

\* evaluate_policy: entry
EvaluateEnter ==
    /\ pc = "evaluate"
    /\ i' = 0
    /\ pc' = "sweep"
    /\ UNCHANGED <<gi, c, info, state, action, policy, delta, cursor, policy_stable,
                   p_old, v_sweep>>

\* evaluate_policy: top of the loop
SweepBegin ==
    /\ pc = "sweep"
    /\ delta' = 0
    /\ cursor' = 1
    /\ v_sweep' = [p \in DOMAIN state |-> state[p].state_v]
    /\ pc' = "visit"
    /\ UNCHANGED <<gi, c, info, state, action, policy, i, policy_stable, p_old>>

\* evaluate_policy: one iteration of the for loop
EvalVisit ==
    /\ pc = "visit"
    /\ cursor <= Len(state)
    /\ LET s == state[cursor]
           v_old == s.state_v
           a == policy[Idx2(s.count, gi.state_range)]
           v_new == SumTransitions(s, s.action[a])
       IN  /\ state' = [state EXCEPT ![cursor] = StoreValue(s, v_new)]
           /\ delta' = Max(delta, Abs(v_new - v_old))
    /\ cursor' = cursor + 1
    /\ UNCHANGED <<gi, c, info, action, policy, pc, i, policy_stable, p_old, v_sweep>>

\* evaluate_policy: i += 1 and the exit test
SweepEnd ==
    /\ pc = "visit"
    /\ cursor > Len(state)
    /\ i' = i + 1
    /\ pc' = IF SweepBreaks(delta, i + 1) THEN "improve" ELSE "sweep"
    /\ UNCHANGED <<gi, c, info, state, action, policy, delta, cursor, policy_stable,
                   p_old, v_sweep>>

\* improve_policy: entry
ImproveEnter ==
    /\ pc = "improve"
    /\ policy_stable' = TRUE
    /\ cursor' = 1
    /\ p_old' = policy
    /\ pc' = "improve_visit"
    /\ UNCHANGED <<gi, c, info, state, action, policy, i, delta, v_sweep>>

\* improve_policy: one iteration of the for loop
ImproveVisit ==
    /\ pc = "improve_visit"
    /\ cursor <= Len(state)
    /\ LET s == state[cursor]
           sn == Idx2(s.count, gi.state_range)
           a_old == policy[sn]
           a_new == SelectAction(s)
       IN  /\ policy' = [policy EXCEPT ![sn] = a_new]
           /\ policy_stable' = StableAfter(policy_stable, a_old, a_new)
    /\ cursor' = cursor + 1
    /\ UNCHANGED <<gi, c, info, state, action, pc, i, delta, p_old, v_sweep>>

\* improve_policy returns; run: if stable { break }
ImproveReturn ==
    /\ pc = "improve_visit"
    /\ cursor > Len(state)
    /\ pc' = IF policy_stable THEN "done" ELSE "evaluate"
    /\ UNCHANGED <<gi, c, info, state, action, policy, i, delta, cursor, policy_stable,
                   p_old, v_sweep>>

Next ==
    \/ SetupStates
    \/ SetupActions
    \/ SetupAddTransitions
    \/ SetupParseAction
    \/ SetupReturn
    \/ NewPolicy
    \/ EvaluateEnter
    \/ SweepBegin
    \/ EvalVisit
    \/ SweepEnd
    \/ ImproveEnter
    \/ ImproveVisit
    \/ ImproveReturn

Spec == Init /\ [][Next]_vars

\* run is one sequential thread: a step that can be taken is taken
FairSpec == Spec /\ WF_vars(Next)

\* ---------------------------------------------------------- properties
SetupPcs == {"setup", "setup_actions", "setup_transitions", "setup_parse"}

EvaluatePcs == {"evaluate", "sweep", "visit"}

ImprovePcs == {"improve", "improve_visit"}

SetupDone == pc \notin SetupPcs

Moves == (-gi.move_limit)..gi.move_limit

InRange(x) == 0 <= x /\ x <= gi.state_range

\* the actions of s whose lookahead is maximal
Maximizers(s) ==
    {a \in DOMAIN s.action :
        \A b \in DOMAIN s.action : Lookahead(s, a) >= Lookahead(s, b)}

\* the parts of the graph fixed at construction
Structure ==
    <<[p \in DOMAIN state |->
          <<state[p].count, state[p].rent, state[p].reward,
            state[p].transition, state[p].action>>],
      action>>

Values == [p \in DOMAIN state |-> state[p].state_v]

\* C1: from the all-zero policy and values, the loop of run reaches an
\* improvement pass that returns stable = true: every run terminates.
C1_Terminates == <>(pc = "done")

C1_Witness ==
    /\ pc = "done"
    /\ \E p \in DOMAIN policy : policy[p] # 0
    /\ \E p \in DOMAIN state : state[p].state_v # 0

\* C2: a completed improvement pass has policy_stable true exactly when no
\* policy entry differs from the policy before the pass; the loop exits only
\* after such a pass, and then every state's policy action maximizes the
\* lookahead over the state's actions under the final value estimates.
C2_StableIffUnchanged ==
    /\ (pc = "improve_visit" /\ cursor > Len(state))
          => (policy_stable <=> policy = p_old)
    /\ pc = "done"
          => /\ policy_stable
             /\ policy = p_old
             /\ \A p \in DOMAIN state :
                   \A a \in DOMAIN state[p].action :
                       Lookahead(state[p], policy[p]) >= Lookahead(state[p], a)

C2_Witness ==
    /\ pc = "done"
    /\ gi.state_range >= 1
    /\ gi.move_limit >= 1
    /\ \E p, q \in DOMAIN policy : policy[p] # policy[q]

\* C3: in an improvement pass, the lookahead of the action assigned to a
\* visited state is at least the lookahead of the action it held before the
\* pass, under the same value estimates.
C3_Monotone ==
    pc = "improve_visit"
        => \A p \in 1..(cursor - 1) :
              Lookahead(state[p], policy[p]) >= Lookahead(state[p], p_old[p])

C3_Witness ==
    /\ pc = "improve_visit"
    /\ cursor > Len(state)
    /\ \E p \in DOMAIN state :
          Lookahead(state[p], policy[p]) > Lookahead(state[p], p_old[p])

\* C4: after setup every state has, for every move k in -L..L, a transition,
\* and every transition's destination pair lies in 0..R x 0..R (so it indexes
\* a state).
C4_DestinationInRange ==
    SetupDone =>
        \A p \in DOMAIN state :
            /\ \A k \in Moves : \E j \in DOMAIN state[p].transition :
                  state[p].transition[j].action = k
            /\ \A j \in DOMAIN state[p].transition :
                  /\ InRange(state[p].transition[j].to[1])
                  /\ InRange(state[p].transition[j].to[2])
                  /\ Idx2(state[p].transition[j].to, gi.state_range) \in DOMAIN state

\* a destination below 0 and one above R before clamping
C4_Witness ==
    /\ SetupDone
    /\ \E j \in DOMAIN state[1].transition :
          LET t == state[1].transition[j]
          IN  /\ t.action > 0
              /\ Round(StateExpectedCount(state[1])[1] - t.action * Scale
                       + expected_count(gi.state_range, gi.dist_return_0), Scale) < 0
              /\ t.to[1] = 0
    /\ \E j \in DOMAIN state[Len(state)].transition :
          LET t == state[Len(state)].transition[j]
          IN  /\ t.action < 0
              /\ Round(StateExpectedCount(state[Len(state)])[1] - t.action * Scale
                       + expected_count(gi.state_range, gi.dist_return_0), Scale)
                    > gi.state_range
              /\ t.to[1] = gi.state_range

\* C5: after setup every state has 2L+1 transitions, exactly one per move in
\* -L..L, each with probability 1 and from the state's own count pair, and
\* its index has the keys -L..L, each mapped to the one-element list holding
\* the position (from 0) of that move's transition.
C5_OneTransitionPerAction ==
    SetupDone =>
        \A p \in DOMAIN state :
            LET tr == state[p].transition
            IN  /\ Len(tr) = 2 * gi.move_limit + 1
                /\ \A k \in Moves : Cardinality({j \in DOMAIN tr : tr[j].action = k}) = 1
                /\ \A j \in DOMAIN tr :
                      /\ tr[j].prob = 1
                      /\ tr[j].from = state[p].count
                      /\ tr[j].from = CountAt(p, gi.state_range)
                /\ DOMAIN state[p].action = Moves
                /\ \A k \in Moves :
                      /\ Len(state[p].action[k]) = 1
                      /\ tr[state[p].action[k][1] + 1].action = k

C5_Witness ==
    /\ SetupDone
    /\ gi.move_limit >= 2
    /\ gi.state_range >= 1
    /\ state[2].action[-2] = <<4>>

\* C6: the reward of move k is -2 * (|k| - credit), credit 1 only for k > 0
\* with the change present and free shuttle on: without the change move 2
\* costs -4, with free shuttle -2, move -2 costs -4 either way, move 0 costs 0.
C6_ActionReward ==
    SetupDone =>
        /\ \A k \in Moves :
              action[k].reward =
                  (-2) * Scale
                    * (Abs(k) - (IF k > 0 /\ c.some /\ c.free_shuttle = 1 THEN 1 ELSE 0))
        /\ action[0].reward = 0
        /\ gi.move_limit >= 2 =>
              /\ action[-2].reward = (-4) * Scale
              /\ ~c.some => action[2].reward = (-4) * Scale
              /\ (c.some /\ c.free_shuttle = 1) => action[2].reward = (-2) * Scale

C6_Witness ==
    /\ SetupDone
    /\ gi.move_limit >= 2
    /\ c.some
    /\ c.free_shuttle = 1
    /\ action[2].reward = (-2) * Scale
    /\ action[-2].reward = (-4) * Scale

\* the first of M in the order smallest |action|, then smallest signed value
FirstByMagnitude(M) ==
    CHOOSE a \in M : \A b \in M : Abs(a) < Abs(b) \/ (Abs(a) = Abs(b) /\ a <= b)

\* the last of M in ascending signed order
LastAscending(M) == CHOOSE a \in M : \A b \in M : b <= a

\* C7 as stated: among two or more actions of maximal lookahead the pass
\* selects the one with the smallest |action|, then the smallest signed value.
C7_TieSmallestMagnitude ==
    pc = "improve_visit"
        => \A p \in 1..(cursor - 1) :
              Cardinality(Maximizers(state[p])) >= 2
                  => policy[p] = FirstByMagnitude(Maximizers(state[p]))

\* C7 amended: among two or more actions of maximal lookahead the pass
\* selects the last in ascending signed order, the largest signed value.
C7_TieLargestSigned ==
    pc = "improve_visit"
        => \A p \in 1..(cursor - 1) :
              Cardinality(Maximizers(state[p])) >= 2
                  => policy[p] = LastAscending(Maximizers(state[p]))

C7_Witness ==
    /\ pc = "improve_visit"
    /\ \E p \in 1..(cursor - 1) :
          /\ Cardinality(Maximizers(state[p])) >= 2
          /\ policy[p] # FirstByMagnitude(Maximizers(state[p]))
          /\ policy[p] = LastAscending(Maximizers(state[p]))

\* C8: a call of evaluate_policy goes on to another sweep only after a sweep
\* with delta > theta and fewer than max_iter sweeps done, and returns after
\* at least one and at most max_iter sweeps, the last with delta <= theta
\* unless max_iter sweeps were done.
C8_SweepCount ==
    /\ i <= info.max_iter
    /\ (pc = "sweep" /\ i >= 1) => (delta > info.theta /\ i < info.max_iter)
    /\ pc \in ImprovePcs \cup {"done"}
          => /\ 1 <= i
             /\ delta <= info.theta \/ i = info.max_iter

C8_Witness ==
    /\ pc = "improve"
    /\ info.max_iter >= 2
    /\ i = info.max_iter
    /\ delta > info.theta

C8_WitnessEarly ==
    /\ pc = "improve"
    /\ i < info.max_iter
    /\ delta <= info.theta

\* C9: within a sweep the value written for a visited state is
\* prob * (stateReward + actionReward + discount * V(successor)) for its policy
\* action, V(successor) being the value written in this sweep when the
\* successor was visited earlier and the value at the start of the sweep when
\* the successor is the state itself or comes later.
C9_InPlace ==
    pc = "visit"
        => \A p \in 1..(cursor - 1) :
              LET s == state[p]
                  t == s.transition[s.action[policy[p]][1] + 1]
                  q == Idx2(t.to, gi.state_range)
                  v == IF q < p THEN state[q].state_v ELSE v_sweep[q]
              IN  s.state_v = t.prob * (s.reward + action[t.action].reward
                                          + Round(info.discount[1] * v, info.discount[2]))

C9_Witness ==
    /\ pc = "visit"
    /\ i >= 1
    /\ \E p \in 1..(cursor - 1) :
          LET s == state[p]
              t == s.transition[s.action[policy[p]][1] + 1]
              q == Idx2(t.to, gi.state_range)
          IN  /\ q < p
              /\ state[q].state_v # v_sweep[q]
              /\ Round(info.discount[1] * state[q].state_v, info.discount[2])
                    # Round(info.discount[1] * v_sweep[q], info.discount[2])

\* C10: once setup has returned, no step changes a state reward, an action
\* reward, a transition or an index; the steps of evaluate_policy leave the
\* policy unchanged and the steps of improve_policy leave every value
\* estimate unchanged.
C10_Frame ==
    [][/\ SetupDone => Structure' = Structure
       /\ pc \in EvaluatePcs => policy' = policy
       /\ pc \in ImprovePcs => Values' = Values]_vars

C10_Witness ==
    /\ pc = "improve_visit"
    /\ cursor > Len(state)
    /\ policy # p_old
    /\ Values # [p \in DOMAIN state |-> 0]
    /\ Values # v_sweep

====
